---- MODULE Spec2Model ----
(***************************************************************************)
(* Model of freqtrade/exchange/binance.py: the Binance exchange adapter.   *)
(*                                                                         *)
(* Numbers.  Python floats are modelled by exact scaled integers:          *)
(*   - a maintenance margin ratio r stands for r / RatioScale (1 = 0.01);  *)
(*   - a maintenance amount a stands for a / RatioScale;                   *)
(*   - a limit ratio p stands for p / PctScale (990 = 0.99);               *)
(*   - a price x stands for x / PctScale price units (100000 = 100.0).     *)
(* Optional values: <<>> is Python's None and <<x>> is the value x.        *)
(***************************************************************************)
EXTENDS Integers, Sequences, FiniteSets, TLC

VARIABLES
    dry_run,            \* self._config['dry_run']
    trading_mode,       \* self.trading_mode
    leverage_brackets,  \* self._leverage_brackets: pair -> list of [floor, ratio, amt]
    pc,                 \* position of the adapter's caller: "idle" or the pending venue request
    count,              \* retries left for the retrier of the running operation
    lev_count,          \* retries left for the nested _set_leverage retrier
    req,                \* arguments and locals of the running stoploss call
    venue_calls,        \* create_order requests of the running (or latest) call, and the order sent
    venue_log,          \* venue methods requested at least once in this session
    last,               \* outcome of the latest call, NoCall while it runs
    builder,            \* thread rebuilding the table (interleaved specification)
    reader,             \* thread doing a margin lookup (interleaved specification)
    whole_tables        \* whole tables that existed while the reader's lookup ran

vars == <<dry_run, trading_mode, leverage_brackets, pc, count, lev_count,
          req, venue_calls, venue_log, last, builder, reader, whole_tables>>

None == <<>>
Some(x) == <<x>>

\* ------------------------------------------------------------------------
\* Input domains
\* ------------------------------------------------------------------------
Pairs == {"ETH/USDT", "BTC/USDT"}
NotionalFloors == {0, 10000}
MmRatios == {1, 2}
NominalValues == {0, 9999, 10000, 10001}
MaxTiers == 2

RatioScale == 10 * 10
PctScale == 10 * 10 * 10

TradingModes == {"spot", "margin", "futures"}

RawTiers == NotionalFloors \X MmRatios

RECURSIVE SeqsUpTo(_, _)
SeqsUpTo(S, n) ==
    IF n = 0 THEN {<<>>}
    ELSE LET shorter == SeqsUpTo(S, n - 1)
         IN shorter \cup {Append(s, x) : s \in shorter, x \in S}

TierLists == SeqsUpTo(RawTiers, MaxTiers)

\* what load_leverage_brackets() can answer: pair -> list of (notionalFloor, mmRatio).
\* ETH/USDT is listed with any tier list, BTC/USDT with the tiers of the spec's example or not at all
RawBrackets ==
    {[p \in {"ETH/USDT"} |-> brkts] : brkts \in TierLists}
    \cup {[p \in Pairs |-> IF p = "ETH/USDT" THEN brkts ELSE <<<<0, 1>>, <<10000, 2>>>>] :
            brkts \in TierLists}
    \cup {[p \in {"BTC/USDT"} |-> <<<<0, 1>>, <<10000, 2>>>>]}

\* binance_leverage_brackets.json, the snapshot used in dry-run
BundledSnapshot == [p \in Pairs |-> IF p = "ETH/USDT" THEN <<<<0, 1>>, <<10000, 2>>>>
                                                       ELSE <<<<0, 2>>>>]

\* ------------------------------------------------------------------------
\* fill_leverage_brackets: the bracket arithmetic
\* ------------------------------------------------------------------------
\* Python truthiness of old_ratio: None and 0 are false
Truthy(x) == x # None /\ x[1] # 0

\* (float(notional_floor) * (float(mm_ratio)) - float(old_ratio)) + amt
NextAmt(notional_floor, mm_ratio, old_ratio, amt) ==
    ((notional_floor * mm_ratio) - old_ratio) + amt

\* the inner loop over one pair's tiers
RECURSIVE BuildBrackets(_, _, _, _)
BuildBrackets(brkts, amt, old_ratio, brackets) ==
    IF brkts = <<>> THEN brackets
    ELSE LET notional_floor == Head(brkts)[1]
             mm_ratio == Head(brkts)[2]
             new_amt == IF Truthy(old_ratio)
                        THEN NextAmt(notional_floor, mm_ratio, old_ratio[1], amt[1])
                        ELSE 0
         IN BuildBrackets(Tail(brkts), Some(new_amt), Some(mm_ratio),
                          Append(brackets, <<notional_floor, mm_ratio, new_amt>>))

PairBrackets(brkts) == BuildBrackets(brkts, None, None, <<>>)

\* self._leverage_brackets = {pair: brackets}
StorePairReplacing(table, pair, brackets) == [p \in {pair} |-> brackets]

\* self._leverage_brackets[pair] = brackets
StorePair(table, pair, brackets) ==
    [p \in (DOMAIN table) \cup {pair} |-> IF p = pair THEN brackets ELSE table[p]]

\* the outer loop: every pair of the loaded mapping is stored, the others are kept
FillTable(table, leverage_brackets_raw) ==
    [p \in (DOMAIN table) \cup (DOMAIN leverage_brackets_raw) |->
        IF p \in DOMAIN leverage_brackets_raw
        THEN PairBrackets(leverage_brackets_raw[p])
        ELSE table[p]]

\* ------------------------------------------------------------------------
\* Margin lookups
\* ------------------------------------------------------------------------
Return(v) == [kind |-> "return", exc |-> "", value |-> v]
Raise(e) == [kind |-> "raise", exc |-> e, value |-> <<>>]

\* for [notional_floor, mm_ratio, _] in reversed(pair_brackets), from index i down
RECURSIVE MaxLeverageScan(_, _, _)
MaxLeverageScan(pair_brackets, i, nominal_value) ==
    IF i = 0 THEN Return(<<1, 1>>)
    ELSE IF nominal_value = None THEN Raise("TypeError")
    ELSE IF nominal_value[1] >= pair_brackets[i][1]
         THEN Return(<<RatioScale, pair_brackets[i][2]>>)
         ELSE MaxLeverageScan(pair_brackets, i - 1, nominal_value)

RECURSIVE MaxLeverageScanExclusive(_, _, _)
MaxLeverageScanExclusive(pair_brackets, i, nominal_value) ==
    IF i = 0 THEN Return(<<1, 1>>)
    ELSE IF nominal_value = None THEN Raise("TypeError")
    ELSE IF nominal_value[1] > pair_brackets[i][1]
         THEN Return(<<RatioScale, pair_brackets[i][2]>>)
         ELSE MaxLeverageScanExclusive(pair_brackets, i - 1, nominal_value)

GetMaxLeverageExclusive(table, pair, nominal_value) ==
    IF pair \notin DOMAIN table THEN Return(<<1, 1>>)
    ELSE MaxLeverageScanExclusive(table[pair], Len(table[pair]), nominal_value)

\* get_max_leverage; a leverage is the fraction <<numerator, denominator>>
GetMaxLeverage(table, pair, nominal_value) ==
    IF pair \notin DOMAIN table THEN Return(<<1, 1>>)
    ELSE MaxLeverageScan(table[pair], Len(table[pair]), nominal_value)

\* for [notional_floor, mm_ratio, amt] in reversed(pair_brackets), from index i down
RECURSIVE MaintenanceScan(_, _, _)
MaintenanceScan(pair_brackets, i, nominal_value) ==
    IF i = 0 THEN Return(<<None, None>>)
    ELSE IF nominal_value >= pair_brackets[i][1]
         THEN Return(<<Some(pair_brackets[i][2]), Some(pair_brackets[i][3])>>)
         ELSE MaintenanceScan(pair_brackets, i - 1, nominal_value)

\* a forward scan, as a loop without reversed() would do
RECURSIVE MaintenanceScanForward(_, _, _)
MaintenanceScanForward(pair_brackets, i, nominal_value) ==
    IF i > Len(pair_brackets) THEN Return(<<None, None>>)
    ELSE IF nominal_value >= pair_brackets[i][1]
         THEN Return(<<Some(pair_brackets[i][2]), Some(pair_brackets[i][3])>>)
         ELSE MaintenanceScanForward(pair_brackets, i + 1, nominal_value)

GetMaintenanceRatioAndAmtForward(table, pair, nominal_value) ==
    IF nominal_value = None THEN Raise("OperationalException")
    ELSE IF pair \notin DOMAIN table THEN Raise("InvalidOrderException")
    ELSE MaintenanceScanForward(table[pair], 1, nominal_value[1])

\* get_maintenance_ratio_and_amt
GetMaintenanceRatioAndAmt(table, pair, nominal_value) ==
    IF nominal_value = None THEN Raise("OperationalException")
    ELSE IF pair \notin DOMAIN table THEN Raise("InvalidOrderException")
    ELSE MaintenanceScan(table[pair], Len(table[pair]), nominal_value[1])

\* ------------------------------------------------------------------------
\* Venue failures and their translation
\* ------------------------------------------------------------------------
VenueErrors == {"InsufficientFunds", "InvalidOrder", "DDoSProtection",
                "NetworkError", "ExchangeError", "BaseError"}
VenueOutcomes == {"ok"} \cup VenueErrors

\* the base class of each ccxt error class
CcxtBase(cls) ==
    CASE cls = "InsufficientFunds" -> "ExchangeError"
      [] cls = "InvalidOrder" -> "ExchangeError"
      [] cls = "DDoSProtection" -> "NetworkError"
      [] cls = "NetworkError" -> "BaseError"
      [] cls = "ExchangeError" -> "BaseError"
      [] OTHER -> "Exception"

RECURSIVE IsInstance(_, _)
IsInstance(e, cls) ==
    IF e = cls THEN TRUE
    ELSE IF e = "Exception" THEN FALSE
    ELSE IsInstance(CcxtBase(e), cls)

\* the except clauses of fill_leverage_brackets, in order
TranslateFill(e) ==
    IF IsInstance(e, "DDoSProtection") THEN "DDosProtection"
    ELSE IF IsInstance(e, "NetworkError") \/ IsInstance(e, "ExchangeError") THEN "TemporaryError"
    ELSE "OperationalException"

\* the except clauses of _set_leverage, in order
TranslateSetLeverage(e) ==
    IF IsInstance(e, "DDoSProtection") THEN "DDosProtection"
    ELSE IF IsInstance(e, "NetworkError") \/ IsInstance(e, "ExchangeError") THEN "TemporaryError"
    ELSE "OperationalException"

\* stoploss with the except clauses of _set_leverage
TranslateStoplossShort(e) == TranslateSetLeverage(e)

\* the except clauses of stoploss, in order
TranslateStoploss(e) ==
    IF IsInstance(e, "InsufficientFunds") THEN "InsufficientFundsError"
    ELSE IF IsInstance(e, "InvalidOrder") THEN "InvalidOrderException"
    ELSE IF IsInstance(e, "DDoSProtection") THEN "DDosProtection"
    ELSE IF IsInstance(e, "NetworkError") \/ IsInstance(e, "ExchangeError") THEN "TemporaryError"
    ELSE "OperationalException"

\* ------------------------------------------------------------------------
\* retrier
\* ------------------------------------------------------------------------
\* the errors the retrier retries
Retryable(exc) == exc \in {"TemporaryError", "DDosProtection"}

\* @retrier without argument: the default retry count
API_RETRY_COUNT == 4

StoplossRetriesOnce == 0 + 1

\* @retrier(retries=0) on stoploss
StoplossRetries == 0

\* ------------------------------------------------------------------------
\* stoploss: prices
\* ------------------------------------------------------------------------
Sides == {"sell", "buy"}
StopPrices == {100000, 102000}
LimitRatios == {990, 995, 1000, 1010}
TickSizes == {1000, 5000}
RoundModes == {"down", "up", "nearest"}
Amounts == {15}
AmountSteps == {10}
Leverages == {3}

\* price_to_precision: the price on the instrument's tick grid
PriceToPrecision(price, tick, mode) ==
    LET down == price - (price % tick)
        up == IF price % tick = 0 THEN price ELSE down + tick
    IN CASE mode = "down" -> down
         [] mode = "up" -> up
         [] OTHER -> IF 2 * (price % tick) >= tick THEN up ELSE down

\* amount_to_precision: the amount truncated to the instrument's step
AmountToPrecision(amount, step) == amount - (amount % step)

\* rate = stop_price * limit_price_pct, or stop_price * (2 - limit_price_pct);
\* the stop prices of the model are whole price units, so the division is exact
LimitRate(side, stop_price, limit_price_pct) ==
    IF side = "sell"
    THEN (stop_price * limit_price_pct) \div PctScale
    ELSE (stop_price * ((2 * PctScale) - limit_price_pct)) \div PctScale

BadStopPriceStrict(side, stop_price, rate) ==
    IF side = "sell" THEN stop_price < rate ELSE stop_price > rate

\* bad_stop_price = (stop_price <= rate) if side == "sell" else (stop_price >= rate)
BadStopPrice(side, stop_price, rate) ==
    IF side = "sell" THEN stop_price <= rate ELSE stop_price >= rate

\* ------------------------------------------------------------------------
\* State
\* ------------------------------------------------------------------------
NoReq == [pair |-> "", side |-> "", amount |-> 0, stop_price |-> 0, rate |-> 0, leverage |-> 0,
          args |-> <<>>]
NoOrder == [symbol |-> "", type |-> "", side |-> "", amount |-> 0, price |-> 0, stopPrice |-> 0]
ZeroCalls == [create_order |-> 0, order |-> NoOrder]
NoCall == [op |-> "", args |-> <<>>, kind |-> "", exc |-> "", value |-> <<>>]
EmptyTable == [p \in {} |-> <<>>]
IdleThread == [pc |-> "idle"]

Completed(op, args, result) ==
    [op |-> op, args |-> args, kind |-> result.kind, exc |-> result.exc, value |-> result.value]

VenueRequest(method) ==
    /\ venue_log' = venue_log \cup {method}
    /\ UNCHANGED venue_calls

Config ==
    /\ dry_run \in BOOLEAN
    /\ trading_mode \in TradingModes

Init ==
    /\ Config
    /\ leverage_brackets = EmptyTable
    /\ pc = "idle"
    /\ count = 0
    /\ lev_count = 0
    /\ req = NoReq
    /\ venue_calls = ZeroCalls
    /\ venue_log = {}
    /\ last = NoCall
    /\ builder = IdleThread
    /\ reader = IdleThread
    /\ whole_tables = {}

threads == <<builder, reader, whole_tables>>
config == <<dry_run, trading_mode>>

\* the call returns or raises: its locals are gone and its outcome is what the caller sees
Finish(op, args, result) ==
    /\ last' = Completed(op, args, result)
    /\ pc' = "idle"
    /\ count' = 0
    /\ lev_count' = 0
    /\ req' = NoReq

\* ------------------------------------------------------------------------
\* fill_leverage_brackets
\* ------------------------------------------------------------------------
\* the call, up to the request to the venue (live) or to its end (otherwise)
FillLeverageBrackets ==
    /\ pc = "idle"
    /\ venue_calls' = ZeroCalls
    /\ IF trading_mode # "futures"
       THEN /\ Finish("fill_leverage_brackets", None, Return(None))
            /\ UNCHANGED leverage_brackets
       ELSE IF dry_run
       THEN /\ leverage_brackets' = FillTable(leverage_brackets, BundledSnapshot)
            /\ Finish("fill_leverage_brackets", Some(BundledSnapshot), Return(None))
       ELSE /\ pc' = "fill_leverage_brackets:load"
            /\ count' = API_RETRY_COUNT
            /\ last' = NoCall
            /\ UNCHANGED <<leverage_brackets, lev_count, req>>
    /\ UNCHANGED <<config, venue_log, threads>>

\* the venue's answer to load_leverage_brackets and the rest of the call
LoadLeverageBrackets(answers) ==
    /\ pc = "fill_leverage_brackets:load"
    /\ VenueRequest("load_leverage_brackets")
    /\ \E outcome \in VenueOutcomes :
         IF outcome = "ok"
         THEN \E raw \in answers :
                /\ leverage_brackets' = FillTable(leverage_brackets, raw)
                /\ Finish("fill_leverage_brackets", Some(raw), Return(None))
         ELSE LET exc == TranslateFill(outcome)
              IN IF Retryable(exc) /\ count > 0
                 THEN /\ count' = count - 1
                      /\ UNCHANGED <<leverage_brackets, last, pc, lev_count, req>>
                 ELSE /\ Finish("fill_leverage_brackets", Some(outcome), Raise(exc))
                      /\ UNCHANGED leverage_brackets
    /\ UNCHANGED <<config, threads>>

\* ------------------------------------------------------------------------
\* get_max_leverage, get_maintenance_ratio_and_amt
\* ------------------------------------------------------------------------
LookupInputs == {None} \cup {Some(v) : v \in NominalValues}

GetMaxLeverageCall ==
    /\ pc = "idle"
    /\ \E pair \in Pairs, nominal_value \in LookupInputs :
         Finish("get_max_leverage", <<pair, nominal_value>>,
                GetMaxLeverage(leverage_brackets, pair, nominal_value))
    /\ venue_calls' = ZeroCalls
    /\ UNCHANGED <<config, leverage_brackets, venue_log, threads>>

GetMaintenanceRatioAndAmtCall ==
    /\ pc = "idle"
    /\ \E pair \in Pairs, nominal_value \in LookupInputs :
         Finish("get_maintenance_ratio_and_amt", <<pair, nominal_value>>,
                GetMaintenanceRatioAndAmt(leverage_brackets, pair, nominal_value))
    /\ venue_calls' = ZeroCalls
    /\ UNCHANGED <<config, leverage_brackets, venue_log, threads>>

\* ------------------------------------------------------------------------
\* _set_leverage
\* ------------------------------------------------------------------------
SetLeverageReturnsEarlyIgnoringDryRun(mode) == mode # "futures"

\* if self._config['dry_run'] or trading_mode != TradingMode.FUTURES: return
SetLeverageReturnsEarly(mode) == dry_run \/ mode # "futures"

\* the call, up to the request to the venue (live futures) or to its end (otherwise)
SetLeverage ==
    /\ pc = "idle"
    /\ venue_calls' = ZeroCalls
    /\ \E leverage \in Leverages, pair \in Pairs,
          mode_arg \in {None} \cup {Some(m) : m \in TradingModes} :
         LET mode == IF mode_arg = None THEN trading_mode ELSE mode_arg[1]
         IN IF SetLeverageReturnsEarly(mode)
            THEN Finish("_set_leverage", <<pair>>, Return(None))
            ELSE /\ pc' = "_set_leverage:set_leverage"
                 /\ count' = API_RETRY_COUNT
                 /\ req' = [NoReq EXCEPT !.pair = pair, !.leverage = leverage]
                 /\ last' = NoCall
                 /\ UNCHANGED lev_count
    /\ UNCHANGED <<config, leverage_brackets, venue_log, threads>>

\* the venue's answer to set_leverage and the rest of the call
VenueSetLeverage ==
    /\ pc = "_set_leverage:set_leverage"
    /\ VenueRequest("set_leverage")
    /\ \E outcome \in VenueOutcomes :
         IF outcome = "ok"
         THEN Finish("_set_leverage", <<req.pair>>, Return(None))
         ELSE LET exc == TranslateSetLeverage(outcome)
              IN IF Retryable(exc) /\ count > 0
                 THEN /\ count' = count - 1
                      /\ UNCHANGED <<last, pc, lev_count, req>>
                 ELSE Finish("_set_leverage", <<req.pair, outcome>>, Raise(exc))
    /\ UNCHANGED <<config, leverage_brackets, threads>>

\* ------------------------------------------------------------------------
\* stoploss
\* ------------------------------------------------------------------------
\* create_dry_run_order: the order as recorded locally
CreateDryRunOrder(pair, ordertype, side, amount, rate) ==
    [symbol |-> pair, type |-> ordertype, side |-> side, amount |-> amount,
     price |-> rate, stopPrice |-> rate]

\* _lev_prep followed by the guard of _set_leverage: is the venue asked to set the leverage?
LevPrepAsksVenue ==
    /\ trading_mode # "spot"
    /\ ~SetLeverageReturnsEarly(trading_mode)

\* self._lev_prep(pair, leverage), up to its request to the venue if it makes one
LevPrep ==
    IF LevPrepAsksVenue
    THEN /\ pc' = "stoploss:set_leverage"
         /\ lev_count' = API_RETRY_COUNT
    ELSE /\ pc' = "stoploss:create_order"
         /\ lev_count' = 0

\* an error leaves the body of stoploss: the retrier of stoploss runs the body again or gives up
StoplossRaised(outcome, exc) ==
    IF Retryable(exc) /\ count > 0
    THEN /\ count' = count - 1
         /\ LevPrep
         /\ UNCHANGED <<last, req>>
    ELSE Finish("stoploss", [req.args EXCEPT !.venue = outcome], Raise(exc))

\* the call, up to the first request to the venue (live) or to its end (otherwise)
Stoploss ==
    /\ pc = "idle"
    /\ venue_calls' = ZeroCalls
    /\ \E pair \in Pairs, amount \in Amounts, stop_price \in StopPrices,
          limit_price_pct \in LimitRatios, side \in Sides, leverage \in Leverages,
          tick \in TickSizes, step \in AmountSteps, mode \in RoundModes :
         LET args == [pair |-> pair, amount |-> amount, stop_price |-> stop_price,
                      limit_ratio |-> limit_price_pct, side |-> side, leverage |-> leverage,
                      tick |-> tick, step |-> step, mode |-> mode, venue |-> ""]
             rate == LimitRate(side, stop_price, limit_price_pct)
             stop_price_r == PriceToPrecision(stop_price, tick, mode)
         IN IF BadStopPrice(side, stop_price_r, rate)
            THEN Finish("stoploss", args, Raise("OperationalException"))
            ELSE IF dry_run
            THEN Finish("stoploss", args,
                        Return(CreateDryRunOrder(pair, "stop_loss_limit", side,
                                                 AmountToPrecision(amount, step), stop_price_r)))
            ELSE /\ req' = [pair |-> pair, side |-> side,
                            amount |-> AmountToPrecision(amount, step),
                            stop_price |-> stop_price_r,
                            rate |-> PriceToPrecision(rate, tick, mode),
                            leverage |-> leverage, args |-> args]
                 /\ count' = StoplossRetries
                 /\ LevPrep
                 /\ last' = NoCall
    /\ UNCHANGED <<config, leverage_brackets, venue_log, threads>>

\* the venue's answer to the set_leverage of _lev_prep and the rest of the call up to create_order
StoplossSetLeverage ==
    /\ pc = "stoploss:set_leverage"
    /\ VenueRequest("set_leverage")
    /\ \E outcome \in VenueOutcomes :
         IF outcome = "ok"
         THEN /\ pc' = "stoploss:create_order"
              /\ lev_count' = 0
              /\ UNCHANGED <<count, last, req>>
         ELSE LET exc == TranslateSetLeverage(outcome)
              IN IF Retryable(exc) /\ lev_count > 0
                 THEN /\ lev_count' = lev_count - 1
                      /\ UNCHANGED <<pc, count, last, req>>
                 ELSE StoplossRaised(outcome, exc)
    /\ UNCHANGED <<config, leverage_brackets, threads>>

\* the venue's answer to create_order and the rest of the call
StoplossCreateOrder ==
    /\ pc = "stoploss:create_order"
    /\ venue_calls' = [create_order |-> venue_calls.create_order + 1,
                       order |-> [symbol |-> req.pair, type |-> "stop_loss_limit",
                                  side |-> req.side, amount |-> req.amount,
                                  price |-> req.rate, stopPrice |-> req.stop_price]]
    /\ venue_log' = venue_log \cup {"create_order"}
    /\ \E outcome \in VenueOutcomes :
         IF outcome = "ok"
         THEN Finish("stoploss", [req.args EXCEPT !.venue = "ok"], Return(venue_calls'.order))
         ELSE StoplossRaised(outcome, TranslateStoploss(outcome))
    /\ UNCHANGED <<config, leverage_brackets, threads>>

\* ------------------------------------------------------------------------
\* Specifications
\* ------------------------------------------------------------------------
\* the bracket table and the margin lookups
Next ==
    \/ FillLeverageBrackets
    \/ LoadLeverageBrackets(RawBrackets)
    \/ GetMaxLeverageCall
    \/ GetMaintenanceRatioAndAmtCall

Spec == Init /\ [][Next]_vars

\* answers of the venue in the order specification
VenueSample == {[p \in {"BTC/USDT"} |-> <<<<0, 1>>, <<10000, 2>>>>]}

\* the operations that reach the venue
NextOrders ==
    \/ Stoploss
    \/ StoplossSetLeverage
    \/ StoplossCreateOrder
    \/ SetLeverage
    \/ VenueSetLeverage
    \/ FillLeverageBrackets
    \/ LoadLeverageBrackets(VenueSample)

SpecOrders == Init /\ [][NextOrders]_vars

\* ------------------------------------------------------------------------
\* Properties
\* ------------------------------------------------------------------------
Max(S) == CHOOSE x \in S : \A y \in S : y <= x

FillBuilt == last.op = "fill_leverage_brackets" /\ last.kind = "return" /\ last.args # None

\* C1: after fill_leverage_brackets built the table, every tier n > 0 of every loaded
\* instrument has amount_n = amount_(n-1) + notionalFloor_n * (mmRatio_n - mmRatio_(n-1))
C1_AmountRecurrence ==
    FillBuilt =>
        \A p \in DOMAIN last.args[1] :
            LET brkts == last.args[1][p]
                rows == leverage_brackets[p]
            IN /\ Len(rows) = Len(brkts)
               /\ \A n \in 2..Len(brkts) :
                    rows[n][3] = rows[n - 1][3] + brkts[n][1] * (brkts[n][2] - brkts[n - 1][2])

Ascending(brkts) == \A n \in 2..Len(brkts) : brkts[n - 1][1] <= brkts[n][1]

\* C7: for every loaded instrument whose tiers ascend by notionalFloor, the amount of
\* tier 0 is 0 and the amounts never decrease along the tiers
C7_AmountsMonotone ==
    FillBuilt =>
        \A p \in DOMAIN last.args[1] :
            LET brkts == last.args[1][p]
                rows == leverage_brackets[p]
            IN Ascending(brkts) =>
                /\ Len(rows) = Len(brkts)
                /\ Len(rows) > 0 => rows[1][3] = 0
                /\ \A n \in 2..Len(rows) : rows[n][3] >= rows[n - 1][3]

\* the tiers of the list whose floor is at most v
Qualifying(rows, v) == {i \in 1..Len(rows) : rows[i][1] <= v}

MaintenanceResultAsClaimed ==
    last.op = "get_maintenance_ratio_and_amt" =>
        LET pair == last.args[1]
            nominal_value == last.args[2]
        IN IF nominal_value = None
           THEN last.kind = "raise" /\ last.exc = "OperationalException"
           ELSE IF pair \notin DOMAIN leverage_brackets
           THEN last.kind = "raise" /\ last.exc = "InvalidOrderException"
           ELSE LET rows == leverage_brackets[pair]
                    Q == Qualifying(rows, nominal_value[1])
                IN /\ last.kind = "return"
                   /\ IF Q = {}
                      THEN last.value = <<None, None>>
                      ELSE last.value = <<Some(rows[Max(Q)][2]), Some(rows[Max(Q)][3])>>

\* C8: get_maintenance_ratio_and_amt raises OperationalException without a nominal value,
\* else InvalidOrderException for an unknown pair, else returns (ratio, amount) of the
\* highest tier whose floor is at most the nominal value, or (None, None); the table is
\* left as it was
C8_MaintenanceLookup ==
    [][last'.op = "get_maintenance_ratio_and_amt" =>
        (leverage_brackets' = leverage_brackets /\ MaintenanceResultAsClaimed')]_vars

C8_Witness ==
    /\ last.op = "get_maintenance_ratio_and_amt"
    /\ last.kind = "return"
    /\ last.args[2] = Some(10000)
    /\ Len(leverage_brackets[last.args[1]]) = 2
    /\ leverage_brackets[last.args[1]][1][1] = 0
    /\ leverage_brackets[last.args[1]][2][1] = 10000
    /\ last.value = <<Some(leverage_brackets[last.args[1]][2][2]),
                      Some(leverage_brackets[last.args[1]][2][3])>>

\* C9: get_max_leverage returns 1.0 for a pair that is not in the table or when no tier has
\* its floor at or below the nominal value, else 1 / mmRatio of the highest such tier
C9_MaxLeverage ==
    last.op = "get_max_leverage" =>
        LET pair == last.args[1]
            nominal_value == last.args[2]
        IN IF pair \notin DOMAIN leverage_brackets
           THEN last.kind = "return" /\ last.value[1] = last.value[2]
           ELSE nominal_value # None =>
                LET rows == leverage_brackets[pair]
                    Q == Qualifying(rows, nominal_value[1])
                IN /\ last.kind = "return"
                   /\ IF Q = {}
                      THEN last.value[1] = last.value[2]
                      ELSE last.value[1] * rows[Max(Q)][2] = last.value[2] * RatioScale

C9_Witness ==
    /\ last.op = "get_max_leverage"
    /\ last.kind = "return"
    /\ last.args[2] = Some(10000)
    /\ last.args[1] \in DOMAIN leverage_brackets
    /\ Len(leverage_brackets[last.args[1]]) = 2
    /\ leverage_brackets[last.args[1]][1] = <<0, 1, 0>>
    /\ leverage_brackets[last.args[1]][2][1] = 10000
    /\ leverage_brackets[last.args[1]][2][2] = 2
    /\ last.value = <<RatioScale, 2>>

TranslatedKinds == {"InsufficientFundsError", "InvalidOrderException", "DDosProtection",
                    "TemporaryError", "OperationalException"}

StoplossRunning == pc \in {"stoploss:set_leverage", "stoploss:create_order"}

\* C2: one call of stoploss asks the venue to create an order at most once; after a venue
\* failure the call has ended with a translated error
C2_CreateOrderAtMostOnce ==
    /\ venue_calls.create_order <= 1
    /\ (last.op = "stoploss" /\ last.args.venue \in VenueErrors) =>
            /\ last.kind = "raise"
            /\ last.exc \in TranslatedKinds
            /\ ~StoplossRunning

C2_Witness ==
    /\ last.op = "stoploss"
    /\ last.kind = "raise"
    /\ last.exc = "TemporaryError"
    /\ last.args.venue = "NetworkError"
    /\ venue_calls.create_order = 1

\* the check of the stop price against the limit rate, on the arguments of a call
StopNotBetterThanLimit(a) ==
    LET stop_price_r == PriceToPrecision(a.stop_price, a.tick, a.mode)
    IN IF a.side = "sell"
       THEN stop_price_r * PctScale <= a.stop_price * a.limit_ratio
       ELSE stop_price_r * PctScale >= a.stop_price * ((2 * PctScale) - a.limit_ratio)

\* C3: a stoploss call whose rounded stop price is not better than its limit rate raises
\* OperationalException before any request to the venue and before the dry-run order
C3_BadStopPriceRejected ==
    /\ StoplossRunning => ~StopNotBetterThanLimit(req.args)
    /\ last.op = "stoploss" =>
         /\ StopNotBetterThanLimit(last.args) =>
              /\ last.kind = "raise"
              /\ last.exc = "OperationalException"
              /\ last.args.venue = ""
              /\ venue_calls.create_order = 0
         /\ ~StopNotBetterThanLimit(last.args) =>
              ~(last.kind = "raise" /\ last.args.venue = "")

C3_Witness ==
    /\ last.op = "stoploss"
    /\ last.args.side = "sell"
    /\ last.args.stop_price = 100 * PctScale
    /\ last.args.limit_ratio = 1010
    /\ last.kind = "raise"
    /\ last.exc = "OperationalException"

\* C4: every order sent to the venue has its stop price above its limit price (sell) or
\* below it (buy), on the values sent
C4_SentOrderOrdered ==
    venue_calls.create_order > 0 =>
        IF venue_calls.order.side = "sell"
        THEN venue_calls.order.stopPrice > venue_calls.order.price
        ELSE venue_calls.order.stopPrice < venue_calls.order.price

\* the translation table
TranslationTable(e) ==
    CASE e = "InsufficientFunds" -> "InsufficientFundsError"
      [] e = "InvalidOrder" -> "InvalidOrderException"
      [] e = "DDoSProtection" -> "DDosProtection"
      [] e \in {"NetworkError", "ExchangeError"} -> "TemporaryError"
      [] OTHER -> "OperationalException"

\* the table without its first two rows: such failures are exchange errors
ShortTranslationTable(e) ==
    CASE e = "DDoSProtection" -> "DDosProtection"
      [] e \in {"NetworkError", "ExchangeError", "InsufficientFunds", "InvalidOrder"} ->
            "TemporaryError"
      [] OTHER -> "OperationalException"

FailedAtVenue ==
    /\ last.kind = "raise"
    /\ last.op \in {"stoploss", "fill_leverage_brackets", "_set_leverage"}
    /\ last.op = "stoploss" => last.args.venue # ""

VenueFailure ==
    IF last.op = "stoploss" THEN last.args.venue
    ELSE IF last.op = "fill_leverage_brackets" THEN last.args[1]
    ELSE last.args[2]

\* C5 as stated: the same table translates the venue's failure in all three operations
C5_UniformTranslation ==
    FailedAtVenue => last.exc = TranslationTable(VenueFailure)

\* C5 as amended: the whole table for a failure of create_order, the table without the
\* InsufficientFunds and InvalidOrder rows for load_leverage_brackets and set_leverage
C5_TranslationPerRequest ==
    FailedAtVenue =>
        last.exc = IF last.op = "stoploss" /\ venue_calls.create_order = 1
                   THEN TranslationTable(VenueFailure)
                   ELSE ShortTranslationTable(VenueFailure)

C5_Witness ==
    /\ last.op = "stoploss"
    /\ last.kind = "raise"
    /\ venue_calls.create_order = 1
    /\ last.args.venue = "InsufficientFunds"
    /\ last.exc = "InsufficientFundsError"

\* C6: in dry-run no call reaches the venue: stoploss returns the locally recorded order,
\* the table comes from the bundled snapshot and _set_leverage returns at once
C6_DryRunNeverReachesVenue ==
    dry_run =>
        /\ venue_log = {}
        /\ pc = "idle"
        /\ venue_calls = ZeroCalls
        /\ DOMAIN leverage_brackets \in {{}, DOMAIN BundledSnapshot}
        /\ \A p \in DOMAIN leverage_brackets :
                /\ Len(leverage_brackets[p]) = Len(BundledSnapshot[p])
                /\ \A n \in 1..Len(leverage_brackets[p]) :
                        /\ leverage_brackets[p][n][1] = BundledSnapshot[p][n][1]
                        /\ leverage_brackets[p][n][2] = BundledSnapshot[p][n][2]
        /\ (last.op = "fill_leverage_brackets" /\ trading_mode = "futures") =>
                last.args = Some(BundledSnapshot)
        /\ last.op = "_set_leverage" => last.kind = "return"
        /\ (last.op = "stoploss" /\ last.kind = "raise") => last.args.venue = ""

C6_Witness ==
    /\ dry_run
    /\ trading_mode = "futures"
    /\ last.op = "stoploss"
    /\ last.kind = "return"
    /\ DOMAIN leverage_brackets = DOMAIN BundledSnapshot

\* ------------------------------------------------------------------------
\* A rebuild of the table interleaved with a margin lookup
\* ------------------------------------------------------------------------
ThreadAnswers ==
    {BundledSnapshot,
     [p \in Pairs |-> IF p = "ETH/USDT" THEN <<<<0, 2>>>> ELSE <<<<0, 1>>, <<10000, 2>>>>],
     [p \in {"BTC/USDT"} |-> <<<<0, 1>>>>]}

LookupOps == {"get_max_leverage", "get_maintenance_ratio_and_amt"}

Lookup(op, table, pair, nominal_value) ==
    IF op = "get_max_leverage"
    THEN GetMaxLeverage(table, pair, nominal_value)
    ELSE GetMaintenanceRatioAndAmt(table, pair, nominal_value)

ReaderRunning == reader.pc \in {"check", "fetch"}

\* fill_leverage_brackets up to the loop over the loaded pairs (the load succeeded)
BuilderLoad ==
    /\ builder.pc = "idle"
    /\ trading_mode = "futures"
    /\ \E raw \in IF dry_run THEN {BundledSnapshot} ELSE ThreadAnswers :
         /\ builder' = [pc |-> "loop", raw |-> raw, todo |-> DOMAIN raw,
                        before |-> leverage_brackets]
         /\ whole_tables' = IF ReaderRunning
                            THEN whole_tables \cup {FillTable(leverage_brackets, raw)}
                            ELSE whole_tables
    /\ venue_log' = IF dry_run THEN venue_log ELSE venue_log \cup {"load_leverage_brackets"}
    /\ UNCHANGED <<config, leverage_brackets, pc, count, lev_count, req, venue_calls, last,
                   reader>>

\* one iteration of the loop over the loaded pairs
BuilderStorePair ==
    /\ builder.pc = "loop"
    /\ \E pair \in builder.todo :
         /\ leverage_brackets' =
                StorePair(leverage_brackets, pair, PairBrackets(builder.raw[pair]))
         /\ builder' = IF builder.todo = {pair}
                       THEN IdleThread
                       ELSE [builder EXCEPT !.todo = @ \ {pair}]
    /\ UNCHANGED <<config, pc, count, lev_count, req, venue_calls, venue_log, last, reader,
                   whole_tables>>

\* a lookup is called
ReaderStart ==
    /\ ~ReaderRunning
    /\ \E op \in LookupOps, pair \in Pairs, nominal_value \in LookupInputs :
         reader' = [pc |-> "check", op |-> op, pair |-> pair, nominal_value |-> nominal_value]
    /\ whole_tables' = IF builder.pc = "loop"
                       THEN {builder.before, FillTable(builder.before, builder.raw)}
                       ELSE {leverage_brackets}
    /\ UNCHANGED <<config, leverage_brackets, pc, count, lev_count, req, venue_calls,
                   venue_log, last, builder>>

ReaderDone(result) ==
    reader' = [pc |-> "done", op |-> reader.op, pair |-> reader.pair,
               nominal_value |-> reader.nominal_value, result |-> result,
               seen |-> leverage_brackets]

\* the checks before the table is indexed: nominal_value is None, pair not in the table
ReaderCheck ==
    /\ reader.pc = "check"
    /\ IF reader.op = "get_maintenance_ratio_and_amt" /\ reader.nominal_value = None
       THEN ReaderDone(Raise("OperationalException"))
       ELSE IF reader.pair \notin DOMAIN leverage_brackets
       THEN ReaderDone(Lookup(reader.op, leverage_brackets, reader.pair, reader.nominal_value))
       ELSE reader' = [reader EXCEPT !.pc = "fetch"]
    /\ UNCHANGED <<config, leverage_brackets, pc, count, lev_count, req, venue_calls,
                   venue_log, last, builder, whole_tables>>

\* pair_brackets = self._leverage_brackets[pair] and the scan of that list
ReaderFetch ==
    /\ reader.pc = "fetch"
    /\ LET pair_brackets == leverage_brackets[reader.pair]
       IN ReaderDone(IF reader.op = "get_max_leverage"
                     THEN MaxLeverageScan(pair_brackets, Len(pair_brackets),
                                          reader.nominal_value)
                     ELSE MaintenanceScan(pair_brackets, Len(pair_brackets),
                                          reader.nominal_value[1]))
    /\ UNCHANGED <<config, leverage_brackets, pc, count, lev_count, req, venue_calls,
                   venue_log, last, builder, whole_tables>>

NextThreads ==
    \/ BuilderLoad
    \/ BuilderStorePair
    \/ ReaderStart
    \/ ReaderCheck
    \/ ReaderFetch

SpecThreads == Init /\ [][NextThreads]_vars

\* C10: the result of a lookup that ran while the table was rebuilt is its result on the
\* whole table of before the rebuild or on the whole table of after it
C10_LookupSeesWholeTable ==
    reader.pc = "done" =>
        reader.result \in {Lookup(reader.op, T, reader.pair, reader.nominal_value) :
                            T \in whole_tables}

C10_Witness ==
    /\ reader.pc = "done"
    /\ reader.pair \in DOMAIN reader.seen
    /\ reader.seen \notin whole_tables
    /\ Cardinality(whole_tables) = 2

====
